---- MODULE Spec2Model ----
(***************************************************************************)
(* Model of harness_pipeline_exporter.py: the three paginated fetches      *)
(* (fetch_all_with_pagination, get_projects, get_pipelines), the pipeline  *)
(* count shortcut (get_pipeline_count), the organization lookup and the    *)
(* traversal in main.  The HTTP server is the environment: every request   *)
(* is answered by a response drawn from a bounded set of JSON shapes.      *)
(*                                                                         *)
(* JSON values are typed as the API documents them: item lists are lists,  *)
(* counts and page totals are integers, entries are objects.  An optional  *)
(* key is a sequence of length 0 (key absent) or 1 (key present).          *)
(***************************************************************************)
EXTENDS Integers, Sequences, FiniteSets, TLC

\* page_size of the three paginated fetches
PageSize == 100

\* largest totalPages value the modelled server declares
MaxTotalPages == 3

\* the value None of an identifier that .get() did not find
NoneId == "None"

Opt(S) == {<<>>} \cup {<<x>> : x \in S}

\* dict.get(key, default) on an optional key
Get(opt, default) == IF opt = <<>> THEN default ELSE opt[1]

RECURSIVE SumSeq(_)
SumSeq(s) == IF s = <<>> THEN 0 ELSE s[1] + SumSeq(Tail(s))

RECURSIVE Concat(_)
Concat(ss) == IF ss = <<>> THEN <<>> ELSE ss[1] \o Concat(Tail(ss))

(***************************************************************************)
(* Responses of make_api_request.                                          *)
(*   none          the request failed: make_api_request returned None      *)
(*   shape         what body["data"] is: "nodata" (no such key), "list"    *)
(*                 (a direct list) or "obj" (an object)                    *)
(*   list          body["data"] when it is a list                          *)
(*   content       body["data"]["content"], optional                       *)
(*   totalPages    body["data"]["totalPages"], optional                    *)
(*   topTotalPages body["totalPages"], optional                            *)
(*   totalItems / totalElements   body["data"][...], optional              *)
(***************************************************************************)
Body(shape, list, content, totalPages, topTotalPages, totalItems, totalElements) ==
  [none |-> FALSE, shape |-> shape, list |-> list, content |-> content,
   totalPages |-> totalPages, topTotalPages |-> topTotalPages,
   totalItems |-> totalItems, totalElements |-> totalElements]

\* make_api_request: any HTTP error, connection error, timeout or other
\* request exception is printed and mapped to None
NoneResp ==
  [none |-> TRUE, shape |-> "nodata", list |-> <<>>, content |-> <<>>,
   totalPages |-> <<>>, topTotalPages |-> <<>>,
   totalItems |-> <<>>, totalElements |-> <<>>]

NoDataBody == Body("nodata", <<>>, <<>>, <<>>, <<>>, <<>>, <<>>)
ObjBody(content, totalPages) == Body("obj", <<>>, content, totalPages, <<>>, <<>>, <<>>)
ListBody(list, topTotalPages) == Body("list", list, <<>>, <<>>, topTotalPages, <<>>, <<>>)
CountBody(content, totalPages, totalItems, totalElements) ==
  Body("obj", <<>>, content, totalPages, <<>>, totalItems, totalElements)

\* `data and "data" in data`
HasData(data) == ~data.none /\ data.shape # "nodata"

\* `key_name in data["data"]`: the only item-list key the modelled server
\* ever sends is "content"; a direct list never holds the key string
KeyIn(key_name, data) ==
  data.shape = "obj" /\ key_name = "content" /\ data.content # <<>>

(***************************************************************************)
(* One iteration of the while loop of a paginated fetch.  The result is    *)
(* the frame after the iteration; go says whether another iteration (and   *)
(* so another request) follows.                                            *)
(***************************************************************************)
Frame(items, page_index, total_pages, go) ==
  [items |-> items, page_index |-> page_index, total_pages |-> total_pages, go |-> go]

\* `break`
Break(items, page_index, total_pages) == Frame(items, page_index, total_pages, FALSE)

\* Advance without the comparison against total_pages
Advance_Unbounded(items, page_index, total_pages) ==
  [items |-> items, page_index |-> page_index + 1, total_pages |-> total_pages,
   go |-> TRUE]

\* Advance that compares with <= where the code compares with <
Advance_OffByOne(items, page_index, total_pages) ==
  [items |-> items, page_index |-> page_index + 1, total_pages |-> total_pages,
   go |-> page_index + 1 <= total_pages]

\* page_index += 1; if page_index >= total_pages: break; while page_index < total_pages
Advance(items, page_index, total_pages) ==
  Frame(items, page_index + 1, total_pages, page_index + 1 < total_pages)

\* TakePage without the short-page stop
TakePage_NoShortStop(all_items, page_index, total_pages, items_on_page, declared, page_size) ==
  IF items_on_page = <<>> /\ page_index > 0
  THEN Break(all_items, page_index, total_pages)
  ELSE LET extended == all_items \o items_on_page
           refreshed == Get(declared, total_pages)
       IN  IF items_on_page = <<>> /\ refreshed = 0 /\ page_index = 0
           THEN Break(extended, page_index, refreshed)
           ELSE Advance(extended, page_index, refreshed)

\* the branch taken on a response that carries an item list
TakePage(all_items, page_index, total_pages, items_on_page, declared, page_size) ==
  IF items_on_page = <<>> /\ page_index > 0
  THEN Break(all_items, page_index, total_pages)
  ELSE LET extended == all_items \o items_on_page
           refreshed == Get(declared, total_pages)
       IN  IF items_on_page = <<>> /\ refreshed = 0 /\ page_index = 0
           THEN Break(extended, page_index, refreshed)
           ELSE IF Len(items_on_page) < page_size
           THEN Break(extended, page_index, refreshed)
           ELSE Advance(extended, page_index, refreshed)

\* FetchAllBody that gives up what it accumulated when a response is unusable
FetchAllBody_DropOnError(all_items, page_index, total_pages, key_name, data) ==
  IF HasData(data) /\ KeyIn(key_name, data)
  THEN TakePage(all_items, page_index, total_pages, data.content[1],
                data.totalPages, PageSize)
  ELSE IF ~data.none /\ data.shape = "list" /\ key_name = "data_list_direct"
  THEN TakePage(all_items, page_index, total_pages, data.list,
                data.topTotalPages, PageSize)
  ELSE Break(<<>>, page_index, total_pages)

\* the loop body of fetch_all_with_pagination
FetchAllBody(all_items, page_index, total_pages, key_name, data) ==
  IF HasData(data) /\ KeyIn(key_name, data)
  THEN TakePage(all_items, page_index, total_pages, data.content[1],
                data.totalPages, PageSize)
  ELSE IF ~data.none /\ data.shape = "list" /\ key_name = "data_list_direct"
  THEN TakePage(all_items, page_index, total_pages, data.list,
                data.topTotalPages, PageSize)
  ELSE Break(all_items, page_index, total_pages)

\* the loop body of get_projects
GetProjectsBody(all_projects, page_index, total_pages, response_data) ==
  IF HasData(response_data) /\ KeyIn("content", response_data)
  THEN TakePage(all_projects, page_index, total_pages, response_data.content[1],
                response_data.totalPages, PageSize)
  ELSE Break(all_projects, page_index, total_pages)

\* the loop body of get_pipelines
GetPipelinesBody(all_pipelines, page_index, total_pages, response_data) ==
  IF HasData(response_data) /\ KeyIn("content", response_data)
  THEN TakePage(all_pipelines, page_index, total_pages, response_data.content[1],
                response_data.totalPages, PageSize)
  ELSE Break(all_pipelines, page_index, total_pages)

(***************************************************************************)
(* The server.  For one paginated fetch it holds a sequence of pages (the  *)
(* item list of page p is srv_pages[p+1], and the empty list beyond the    *)
(* last page held).  Every request may fail, may be answered by a body of  *)
(* an unexpected shape, or is answered by the page held together with any  *)
(* declared totalPages, which may differ from one response to the next.    *)
(***************************************************************************)
\* a pipeline (or generic item): the page and slot the server holds it in
Items(p, n) == [i \in 1..n |-> <<p, i>>]

\* an organization or project entry: {"organization": {...}} / {"project": {...}}
Entry(identifier, name, ref) == [identifier |-> identifier, name |-> name, ref |-> ref]

\* the item counts of the pages held: empty, short, full and over-full (a
\* server that ignores the size parameter)
PageLens == {0, 1, PageSize, PageSize + 1}

TotalPagesOpt == Opt(0..MaxTotalPages)

RECURSIVE SeqsUpTo(_, _)
SeqsUpTo(S, n) ==
  IF n = 0 THEN {<<>>}
  ELSE LET shorter == SeqsUpTo(S, n - 1)
       IN  shorter \cup {Append(s, x) : s \in {t \in shorter : Len(t) = n - 1}, x \in S}

\* the page stores of a stand-alone paginated fetch
ItemStores ==
  {[p \in 1..Len(lens) |-> Items(p - 1, lens[p])] : lens \in SeqsUpTo(PageLens, MaxTotalPages)}

\* the pipeline stores met during a run of main
MainPipelineStores == {<<Items(0, 1)>>, <<Items(0, PageSize), Items(1, 1)>>}

\* a full page of project entries, none of which has an identifier
NoIdPage(p) == [i \in 1..PageSize |-> Entry(<<>>, <<"ghost">>, <<p, i>>)]

\* the project stores met during a run of main
ProjectStores ==
  { <<>>,
    << <<Entry(<<"p1">>, <<"Project One">>, <<0, 1>>)>> >>,
    << <<Entry(<<"p1">>, <<>>, <<0, 1>>),
         Entry(<<>>, <<"No Id">>, <<0, 2>>),
         Entry(<<"">>, <<"Empty Id">>, <<0, 3>>),
         Entry(<<"p2">>, <<"Project Two">>, <<0, 4>>)>> >>,
    << NoIdPage(0), <<Entry(<<"p3">>, <<"Project Three">>, <<1, 1>>)>> >> }

\* the organization lists the server may return
OrgLists ==
  { <<>>,
    <<Entry(<<"o1">>, <<"Org One">>, <<0, 1>>)>>,
    <<Entry(<<"o1">>, <<>>, <<0, 1>>),
      Entry(<<>>, <<"No Id Org">>, <<0, 2>>),
      Entry(<<"o2">>, <<"Org Two">>, <<0, 3>>)>>,
    <<Entry(<<"">>, <<"Empty Id Org">>, <<0, 1>>),
      Entry(<<"o2">>, <<"Org Two">>, <<0, 2>>)>> }

StorePage(store, p) == IF p + 1 <= Len(store) THEN store[p + 1] ELSE <<>>

\* the responses to the request for page p of a paginated fetch
PageResps(store, p, totals) ==
  {NoneResp, NoDataBody, ObjBody(<<>>, <<>>)}
    \cup {ObjBody(<<StorePage(store, p)>>, tp) : tp \in totals}
    \cup {ListBody(StorePage(store, p), tp) : tp \in totals}

\* the responses to the page-0, size-1 request of get_pipeline_count
CountResps ==
  {NoneResp, NoDataBody, ListBody(<<>>, <<>>)}
    \cup {CountBody(c, tp, ti, te) :
            c \in {<<>>, <<Items(0, 0)>>, <<Items(0, 1)>>, <<Items(0, 2)>>},
            tp \in TotalPagesOpt,
            ti \in Opt({-1, 0, 42}),
            te \in Opt({7})}

\* the count responses met during a run of main
MainCountResps ==
  { NoneResp,
    CountBody(<<Items(0, 1)>>, <<3>>, <<42>>, <<>>),
    CountBody(<<>>, <<>>, <<-1>>, <<7>>),
    CountBody(<<>>, <<>>, <<>>, <<7>>),
    CountBody(<<Items(0, 0)>>, <<0>>, <<>>, <<>>),
    CountBody(<<Items(0, 1)>>, <<>>, <<>>, <<>>),
    CountBody(<<Items(0, 1)>>, <<2>>, <<>>, <<>>) }

(***************************************************************************)
(* State.                                                                  *)
(***************************************************************************)
VARIABLES
  entry,                    \* the function the run enters: main, or one of the
                            \* fetch functions called on its own
  pc,                       \* where control is
  account_id, api_token,    \* the credentials main obtained
  organizations, org_idx,   \* main: the organization list and the for-loop position
  projects, proj_idx,       \* main: the current project list and the for-loop position
  all_pipeline_data,        \* main: the report rows
  processed_org_count, processed_project_count, processed_pipeline_count,
  summary_printed,          \* main: the "--- Summary ---" block was printed
  csv_rows,                 \* the rows written to the CSV file
  exit_status,              \* <<>> while running, <<0>> or <<1>> once the process ended
  key_name,                 \* fetch_all_with_pagination: its key_name argument
  all_items,                \* the accumulator of the active paginated fetch
                            \* (all_items / all_projects / all_pipelines)
  page_index, total_pages,  \* the locals of the active paginated fetch
  result,                   \* the value the most recent fetch function returned
  returned,                 \* the fetch function that has just returned, or ""
  log,                      \* the paginated requests of the current call, in order:
                            \* the page asked for and the response received
  count_resp,               \* the response to the size-1 request of get_pipeline_count
  srv_pages,                \* the pages the server holds for the current fetch
  fetched                   \* main: per processed organization, its name and the
                            \* project list get_projects returned for it

vars ==
  <<entry, pc, account_id, api_token, organizations, org_idx, projects, proj_idx,
    all_pipeline_data, processed_org_count, processed_project_count,
    processed_pipeline_count, summary_printed, csv_rows, exit_status, key_name,
    all_items, page_index, total_pages, result, returned, log, count_resp,
    srv_pages, fetched>>

mainVars ==
  <<organizations, org_idx, projects, proj_idx, all_pipeline_data,
    processed_org_count, processed_project_count, processed_pipeline_count,
    summary_printed, csv_rows, exit_status, fetched>>

credVars == <<account_id, api_token>>

frameVars == <<all_items, page_index, total_pages>>

callVars == <<result, returned, log, count_resp, srv_pages>>

Entries == {"main", "fetch_all_with_pagination", "get_pipeline_count"}

Init ==
  /\ entry \in Entries
  /\ pc = IF entry = "main" THEN "start" ELSE entry
  /\ account_id = "" /\ api_token = ""
  /\ organizations = <<>> /\ org_idx = 1
  /\ projects = <<>> /\ proj_idx = 1
  /\ all_pipeline_data = <<>>
  /\ processed_org_count = 0
  /\ processed_project_count = 0
  /\ processed_pipeline_count = 0
  /\ summary_printed = FALSE
  /\ csv_rows = <<>>
  /\ exit_status = <<>>
  /\ key_name \in IF entry = "fetch_all_with_pagination"
                  THEN {"content", "data_list_direct"} ELSE {"content"}
  /\ all_items = <<>> /\ page_index = 0 /\ total_pages = 1
  /\ result = <<>> /\ returned = ""
  /\ log = <<>> /\ count_resp = <<>>
  /\ srv_pages \in IF entry = "fetch_all_with_pagination" THEN ItemStores ELSE {<<>>}
  /\ fetched = <<>>

(***************************************************************************)
(* Credentials.                                                            *)
(***************************************************************************)
\* what os.environ.get returns ("" stands for unset or empty: both are falsy)
EnvValues == {"", "secret"}

\* what the operator types at the prompt
PromptValues == {"", "  ", " secret "}

\* str.strip()
Strip(s) == CASE s = "  " -> "" [] s = " secret " -> "secret" [] OTHER -> s

\* the value get_harness_account_id / get_harness_api_token ends with
Credential(env, typed) == IF env # "" THEN env ELSE Strip(typed)

get_harness_account_id ==
  /\ pc = "start"
  /\ \E env \in EnvValues, typed \in PromptValues :
       LET got == Credential(env, typed)
       IN  /\ account_id' = got
           /\ IF got = ""
              THEN pc' = "exited" /\ exit_status' = <<1>>
              ELSE pc' = "token" /\ exit_status' = exit_status
  /\ UNCHANGED <<entry, api_token, organizations, org_idx, projects, proj_idx,
                 all_pipeline_data, processed_org_count, processed_project_count,
                 processed_pipeline_count, summary_printed, csv_rows, key_name,
                 frameVars, callVars, fetched>>

get_harness_api_token ==
  /\ pc = "token"
  /\ \E env \in EnvValues, typed \in PromptValues :
       LET got == Credential(env, typed)
       IN  /\ api_token' = got
           /\ IF got = ""
              THEN pc' = "exited" /\ exit_status' = <<1>>
              ELSE pc' = "get_organizations" /\ exit_status' = exit_status
  /\ UNCHANGED <<entry, account_id, organizations, org_idx, projects, proj_idx,
                 all_pipeline_data, processed_org_count, processed_project_count,
                 processed_pipeline_count, summary_printed, csv_rows, key_name,
                 frameVars, callVars, fetched>>

(***************************************************************************)
(* main: organization lookup and traversal.                                *)
(***************************************************************************)
\* when main moves on, the call that returned is over: its locals are gone
\* and the record of its requests is dropped
ClearCall ==
  /\ result' = <<>> /\ returned' = ""
  /\ log' = <<>> /\ count_resp' = <<>> /\ srv_pages' = <<>>
  /\ all_items' = <<>> /\ page_index' = 0 /\ total_pages' = 1

\* the responses to the organization listing request
OrgResps ==
  {NoneResp, NoDataBody, ObjBody(<<>>, <<>>)}
    \cup {ListBody(l, <<>>) : l \in OrgLists}
    \cup {ObjBody(<<l>>, <<>>) : l \in OrgLists}

\* the list get_organizations returns for a response
get_organizations(response_data) ==
  IF HasData(response_data) /\ response_data.shape = "list"
  THEN response_data.list
  ELSE IF HasData(response_data) /\ KeyIn("content", response_data)
  THEN response_data.content[1]
  ELSE <<>>

\* entry.get(kind, {}).get("identifier")
Identifier(e) == Get(e.identifier, NoneId)

\* entry.get(kind, {}).get("name", identifier)
Name(e) == Get(e.name, Identifier(e))

\* Missing that tests for None alone
Missing_NoneOnly(identifier) == identifier = NoneId

\* `not identifier`: None and the empty string are falsy
Missing(identifier) == identifier = NoneId \/ identifier = ""

\* write_data_to_csv: the rows reach the file unless opening or writing it fails
CsvOutcomes(data) == {data, <<>>}

\* main_get_organizations that ends the process with status 1 on an empty list
main_get_organizations_ExitOne ==
  /\ pc = "get_organizations"
  /\ \E response_data \in OrgResps :
       LET orgs == get_organizations(response_data)
       IN  /\ organizations' = orgs
           /\ IF orgs = <<>>
              THEN pc' = "exited" /\ exit_status' = <<1>>
              ELSE pc' = "org_loop" /\ exit_status' = exit_status
  /\ org_idx' = 1
  /\ ClearCall
  /\ UNCHANGED <<entry, credVars, projects, proj_idx, all_pipeline_data,
                 processed_org_count, processed_project_count,
                 processed_pipeline_count, summary_printed, csv_rows, key_name,
                 fetched>>

\* main calls get_organizations and returns at once when the list is empty
main_get_organizations ==
  /\ pc = "get_organizations"
  /\ \E response_data \in OrgResps :
       LET orgs == get_organizations(response_data)
       IN  /\ organizations' = orgs
           /\ IF orgs = <<>>
              THEN pc' = "done" /\ exit_status' = <<0>>
              ELSE pc' = "org_loop" /\ exit_status' = exit_status
  /\ org_idx' = 1
  /\ ClearCall
  /\ UNCHANGED <<entry, credVars, projects, proj_idx, all_pipeline_data,
                 processed_org_count, processed_project_count,
                 processed_pipeline_count, summary_printed, csv_rows, key_name, fetched>>

\* for org_data in organizations: an entry without identifier is skipped
main_skip_org ==
  /\ pc = "org_loop"
  /\ org_idx <= Len(organizations)
  /\ Missing(Identifier(organizations[org_idx]))
  /\ org_idx' = org_idx + 1
  /\ ClearCall
  /\ UNCHANGED <<entry, pc, credVars, organizations, projects, proj_idx,
                 all_pipeline_data, processed_org_count, processed_project_count,
                 processed_pipeline_count, summary_printed, csv_rows, exit_status,
                 key_name, fetched>>

\* an organization with an identifier is counted and get_projects is entered
main_begin_org ==
  /\ pc = "org_loop"
  /\ org_idx <= Len(organizations)
  /\ ~Missing(Identifier(organizations[org_idx]))
  /\ processed_org_count' = processed_org_count + 1
  /\ pc' = "get_projects"
  /\ all_items' = <<>> /\ page_index' = 0 /\ total_pages' = 1
  /\ result' = <<>> /\ returned' = "" /\ log' = <<>> /\ count_resp' = <<>>
  /\ srv_pages' \in ProjectStores
  /\ UNCHANGED <<entry, credVars, organizations, org_idx, projects, proj_idx,
                 all_pipeline_data, processed_project_count,
                 processed_pipeline_count, summary_printed, csv_rows, exit_status,
                 key_name, fetched>>

\* after the last organization: the summary, then the CSV file unless no row
main_summary ==
  /\ pc = "org_loop"
  /\ org_idx > Len(organizations)
  /\ summary_printed' = TRUE
  /\ csv_rows' \in IF all_pipeline_data = <<>> THEN {<<>>}
                   ELSE CsvOutcomes(all_pipeline_data)
  /\ pc' = "done"
  /\ exit_status' = <<0>>
  /\ ClearCall
  /\ UNCHANGED <<entry, credVars, organizations, org_idx, projects, proj_idx,
                 all_pipeline_data, processed_org_count, processed_project_count,
                 processed_pipeline_count, key_name,
                 fetched>>

\* for project_data in projects: an entry without identifier is skipped
main_skip_project ==
  /\ pc = "proj_loop"
  /\ proj_idx <= Len(projects)
  /\ Missing(Identifier(projects[proj_idx]))
  /\ proj_idx' = proj_idx + 1
  /\ ClearCall
  /\ UNCHANGED <<entry, pc, credVars, organizations, org_idx, projects,
                 all_pipeline_data, processed_org_count, processed_project_count,
                 processed_pipeline_count, summary_printed, csv_rows, exit_status,
                 key_name, fetched>>

\* a project with an identifier is counted and get_pipeline_count is entered
main_begin_project ==
  /\ pc = "proj_loop"
  /\ proj_idx <= Len(projects)
  /\ ~Missing(Identifier(projects[proj_idx]))
  /\ processed_project_count' = processed_project_count + 1
  /\ pc' = "get_pipeline_count"
  /\ ClearCall
  /\ UNCHANGED <<entry, credVars, organizations, org_idx, projects, proj_idx,
                 all_pipeline_data, processed_org_count,
                 processed_pipeline_count, summary_printed, csv_rows, exit_status,
                 key_name, fetched>>

\* the project loop of one organization is exhausted: next organization
main_end_org ==
  /\ pc = "proj_loop"
  /\ proj_idx > Len(projects)
  /\ org_idx' = org_idx + 1
  /\ pc' = "org_loop"
  /\ ClearCall
  /\ UNCHANGED <<entry, credVars, organizations, projects, proj_idx,
                 all_pipeline_data, processed_org_count, processed_project_count,
                 processed_pipeline_count, summary_printed, csv_rows, exit_status,
                 key_name, fetched>>

\* the row main appends for the current project
Row(pipeline_count) ==
  [Organization |-> Name(organizations[org_idx]),
   Project |-> Name(projects[proj_idx]),
   PipelineCount |-> pipeline_count]

\* main_record_count that appends no row for a count of 0
main_record_count_SkipZero(pipeline_count) ==
  /\ all_pipeline_data' = IF pipeline_count = 0 THEN all_pipeline_data
                          ELSE Append(all_pipeline_data, Row(pipeline_count))
  /\ processed_pipeline_count' = processed_pipeline_count + pipeline_count
  /\ proj_idx' = proj_idx + 1
  /\ pc' = "proj_loop"
  /\ UNCHANGED <<organizations, org_idx, projects, processed_org_count,
                 processed_project_count, summary_printed, csv_rows, exit_status,
                 fetched>>

\* what main does with the value get_pipeline_count returned
main_record_count(pipeline_count) ==
  /\ all_pipeline_data' = Append(all_pipeline_data, Row(pipeline_count))
  /\ processed_pipeline_count' = processed_pipeline_count + pipeline_count
  /\ proj_idx' = proj_idx + 1
  /\ pc' = "proj_loop"
  /\ UNCHANGED <<organizations, org_idx, projects, processed_org_count,
                 processed_project_count, summary_printed, csv_rows, exit_status,
                 fetched>>

\* main_take_projects that leaves the organization loop on an empty list
main_take_projects_AbortOnEmpty(list) ==
  /\ projects' = list
  /\ fetched' = Append(fetched, [org |-> Name(organizations[org_idx]), projects |-> list])
  /\ IF list = <<>>
     THEN org_idx' = Len(organizations) + 1 /\ pc' = "org_loop" /\ proj_idx' = proj_idx
     ELSE org_idx' = org_idx /\ pc' = "proj_loop" /\ proj_idx' = 1
  /\ UNCHANGED <<organizations, all_pipeline_data, processed_org_count,
                 processed_project_count, processed_pipeline_count,
                 summary_printed, csv_rows, exit_status>>

\* what main does with the list get_projects returned
main_take_projects(list) ==
  /\ projects' = list
  /\ fetched' = Append(fetched, [org |-> Name(organizations[org_idx]), projects |-> list])
  /\ IF list = <<>>
     THEN org_idx' = org_idx + 1 /\ pc' = "org_loop" /\ proj_idx' = proj_idx
     ELSE org_idx' = org_idx /\ pc' = "proj_loop" /\ proj_idx' = 1
  /\ UNCHANGED <<organizations, all_pipeline_data, processed_org_count,
                 processed_project_count, processed_pipeline_count,
                 summary_printed, csv_rows, exit_status>>

(***************************************************************************)
(* The fetch functions.  Each action is one HTTP request together with     *)
(* everything the function (and, on return, its caller) does with the      *)
(* response up to the next request.                                        *)
(***************************************************************************)
LogEntry(page, size, resp) == [page |-> page, size |-> size, resp |-> resp]

\* CountDecision that returns the marker -1 instead of falling back
CountDecision_MinusOne(response_data) ==
  IF HasData(response_data) /\ response_data.shape = "obj"
  THEN IF response_data.totalItems # <<>>
       THEN [full |-> FALSE, count |-> response_data.totalItems[1]]
       ELSE IF response_data.totalElements # <<>>
       THEN [full |-> FALSE, count |-> response_data.totalElements[1]]
       ELSE IF KeyIn("content", response_data)
       THEN IF Get(response_data.totalPages, 0) <= 1
            THEN [full |-> FALSE, count |-> Len(response_data.content[1])]
            ELSE [full |-> FALSE, count |-> -1]
       ELSE [full |-> FALSE, count |-> 0]
  ELSE [full |-> FALSE, count |-> 0]

\* CountDecision that takes the shortcut only below one declared page
CountDecision_StrictlyLess(response_data) ==
  IF HasData(response_data) /\ response_data.shape = "obj"
  THEN IF response_data.totalItems # <<>>
       THEN [full |-> FALSE, count |-> response_data.totalItems[1]]
       ELSE IF response_data.totalElements # <<>>
       THEN [full |-> FALSE, count |-> response_data.totalElements[1]]
       ELSE IF KeyIn("content", response_data)
       THEN IF Get(response_data.totalPages, 0) < 1
            THEN [full |-> FALSE, count |-> Len(response_data.content[1])]
            ELSE [full |-> TRUE, count |-> 0]
       ELSE [full |-> FALSE, count |-> 0]
  ELSE [full |-> FALSE, count |-> 0]

\* CountDecision that looks for totalElements before totalItems
CountDecision_ElementsFirst(response_data) ==
  IF HasData(response_data) /\ response_data.shape = "obj"
  THEN IF response_data.totalElements # <<>>
       THEN [full |-> FALSE, count |-> response_data.totalElements[1]]
       ELSE IF response_data.totalItems # <<>>
       THEN [full |-> FALSE, count |-> response_data.totalItems[1]]
       ELSE IF KeyIn("content", response_data)
       THEN IF Get(response_data.totalPages, 0) <= 1
            THEN [full |-> FALSE, count |-> Len(response_data.content[1])]
            ELSE [full |-> TRUE, count |-> 0]
       ELSE [full |-> FALSE, count |-> 0]
  ELSE [full |-> FALSE, count |-> 0]

\* what get_pipeline_count does with the response to its size-1 request:
\* return a count, or fall back to the full fetch
CountDecision(response_data) ==
  IF HasData(response_data) /\ response_data.shape = "obj"
  THEN IF response_data.totalItems # <<>>
       THEN [full |-> FALSE, count |-> response_data.totalItems[1]]
       ELSE IF response_data.totalElements # <<>>
       THEN [full |-> FALSE, count |-> response_data.totalElements[1]]
       ELSE IF KeyIn("content", response_data)
       THEN IF Get(response_data.totalPages, 0) <= 1
            THEN [full |-> FALSE, count |-> Len(response_data.content[1])]
            ELSE [full |-> TRUE, count |-> 0]
       ELSE [full |-> FALSE, count |-> 0]
  ELSE [full |-> FALSE, count |-> 0]

\* get_pipeline_count returns pipeline_count to its caller
CountReturns(pipeline_count) ==
  /\ result' = <<pipeline_count>>
  /\ returned' = "get_pipeline_count"
  /\ IF entry = "main"
     THEN main_record_count(pipeline_count)
     ELSE pc' = "done" /\ UNCHANGED mainVars

get_pipeline_count ==
  /\ pc = "get_pipeline_count"
  /\ \E response_data \in IF entry = "main" THEN MainCountResps ELSE CountResps :
       /\ count_resp' = <<response_data>>
       /\ LET d == CountDecision(response_data)
          IN  IF d.full
              THEN /\ srv_pages' \in IF entry = "main" THEN MainPipelineStores
                                     ELSE ItemStores
                   /\ all_items' = <<>> /\ page_index' = 0 /\ total_pages' = 1
                   /\ pc' = "get_pipelines"
                   /\ UNCHANGED <<result, returned, mainVars>>
              ELSE /\ CountReturns(d.count)
                   /\ UNCHANGED <<srv_pages, frameVars>>
  /\ log' = <<>>
  /\ UNCHANGED <<entry, credVars, key_name>>

get_pipelines ==
  /\ pc = "get_pipelines"
  /\ \E response_data \in PageResps(srv_pages, page_index, TotalPagesOpt) :
       LET f == GetPipelinesBody(all_items, page_index, total_pages, response_data)
       IN  /\ log' = Append(log, LogEntry(page_index, PageSize, response_data))
           /\ all_items' = f.items
           /\ page_index' = f.page_index
           /\ total_pages' = f.total_pages
           /\ IF f.go
              THEN UNCHANGED <<pc, result, returned, mainVars>>
              ELSE CountReturns(Len(f.items))
  /\ UNCHANGED <<entry, credVars, key_name, count_resp, srv_pages>>

get_projects ==
  /\ pc = "get_projects"
  /\ \E response_data \in PageResps(srv_pages, page_index, TotalPagesOpt) :
       LET f == GetProjectsBody(all_items, page_index, total_pages, response_data)
       IN  /\ log' = Append(log, LogEntry(page_index, PageSize, response_data))
           /\ all_items' = f.items
           /\ page_index' = f.page_index
           /\ total_pages' = f.total_pages
           /\ IF f.go
              THEN UNCHANGED <<pc, result, returned, mainVars>>
              ELSE /\ result' = <<f.items>>
                   /\ returned' = "get_projects"
                   /\ main_take_projects(f.items)
  /\ UNCHANGED <<entry, credVars, key_name, count_resp, srv_pages>>

fetch_all_with_pagination ==
  /\ pc = "fetch_all_with_pagination"
  /\ \E data \in PageResps(srv_pages, page_index, TotalPagesOpt) :
       LET f == FetchAllBody(all_items, page_index, total_pages, key_name, data)
       IN  /\ log' = Append(log, LogEntry(page_index, PageSize, data))
           /\ all_items' = f.items
           /\ page_index' = f.page_index
           /\ total_pages' = f.total_pages
           /\ IF f.go
              THEN UNCHANGED <<pc, result, returned>>
              ELSE /\ result' = <<f.items>>
                   /\ returned' = "fetch_all_with_pagination"
                   /\ pc' = "done"
  /\ UNCHANGED <<entry, credVars, key_name, count_resp, srv_pages, mainVars>>

\* the steps of a run of main
MainNext ==
  \/ get_harness_account_id
  \/ get_harness_api_token
  \/ main_get_organizations
  \/ main_skip_org
  \/ main_begin_org
  \/ main_summary
  \/ main_skip_project
  \/ main_begin_project
  \/ main_end_org
  \/ get_projects
  \/ get_pipeline_count
  \/ get_pipelines

Next ==
  \/ MainNext
  \/ fetch_all_with_pagination

Spec == Init /\ [][Next]_vars

\* the script run from the command line enters main
MainInit == Init /\ entry = "main"

\* main is sequential and every call it makes returns (each request is bounded
\* by its 30 s timeout): a step that can be taken is taken
FairMainSpec == MainInit /\ [][MainNext]_vars /\ WF_vars(MainNext)

TypeOK ==
  /\ entry \in Entries
  /\ page_index \in 0..MaxTotalPages
  /\ exit_status \in Opt({0, 1})
  /\ summary_printed \in BOOLEAN

(***************************************************************************)
(* Properties of the paginated fetches.                                    *)
(***************************************************************************)
\* the item list a response carries under the key the fetch reads, and the
\* empty list when the request failed or the body has no such list
ItemsOf(key, resp) ==
  IF resp.none THEN <<>>
  ELSE IF key = "data_list_direct"
  THEN IF resp.shape = "list" THEN resp.list ELSE <<>>
  ELSE IF resp.shape = "obj" /\ resp.content # <<>> THEN resp.content[1] ELSE <<>>

\* the request failed, the body has no data, or the item-list key is missing
Malformed(key, resp) ==
  \/ resp.none
  \/ resp.shape = "nodata"
  \/ key = "data_list_direct" /\ resp.shape # "list"
  \/ key # "data_list_direct" /\ ~(resp.shape = "obj" /\ resp.content # <<>>)

\* the totalPages a well-formed response declares where the fetch reads it
DeclaredTotal(key, resp) ==
  IF key = "data_list_direct" THEN resp.topTotalPages ELSE resp.totalPages

LoggedItems == [i \in 1..Len(log) |-> ItemsOf(key_name, log[i].resp)]

LoggedCounts == [i \in 1..Len(log) |-> Len(ItemsOf(key_name, log[i].resp))]

\* C1: in every paginated fetch the accumulated (and returned) sequence is the
\* in-order concatenation of the item lists of the pages requested, its length
\* is the sum of the per-page item counts, and every page before the last one
\* requested was full: nothing is requested after the first short page.
C1_Concatenation ==
  /\ all_items = Concat(LoggedItems)
  /\ Len(all_items) = SumSeq(LoggedCounts)
  /\ \A i \in 1..Len(log) : i < Len(log) => LoggedCounts[i] >= PageSize
  /\ returned \in {"fetch_all_with_pagination", "get_projects"} => result = <<all_items>>
  /\ (returned = "get_pipeline_count" /\ log # <<>>) => result = <<Len(all_items)>>

\* a fetch that took two full pages and stopped at the short third one
C1_Witness ==
  /\ returned = "fetch_all_with_pagination"
  /\ Len(log) = 3
  /\ LoggedCounts = <<PageSize, PageSize, 1>>
  /\ Len(result[1]) = 2 * PageSize + 1

WellFormedBefore(i) == {j \in 1..(i - 1) : ~Malformed(key_name, log[j].resp)}

Latest(S) == CHOOSE j \in S : \A k \in S : k <= j

\* C2: the pages requested in one fetch are 0, 1, 2, ... in order, each once; a
\* failed request is the last request of the fetch; and no page is requested
\* whose index reaches the totalPages the most recent well-formed response
\* declared.
C2_PageIndexes ==
  /\ \A i \in 1..Len(log) : log[i].page = i - 1
  /\ \A i \in 1..Len(log) : log[i].resp.none => i = Len(log)
  /\ \A i \in 1..Len(log) :
       WellFormedBefore(i) # {} =>
         LET d == DeclaredTotal(key_name, log[Latest(WellFormedBefore(i))].resp)
         IN  d # <<>> => log[i].page < d[1]

\* three pages were requested under a declared total of 3, and the third
\* request failed
C2_Witness ==
  /\ Len(log) = 3
  /\ log[2].resp.totalPages = <<3>>
  /\ log[3].resp.none
  /\ returned # ""

\* C10: a page response that is absent or malformed ends the fetch at once: the
\* function returns in that step, with exactly the items accumulated before.
C10_StopOnMalformed ==
  [][ (Len(log') = Len(log) + 1 /\ Malformed(key_name, log'[Len(log')].resp))
        => /\ all_items' = all_items
           /\ returned' # ""
           /\ result' = IF returned' = "get_pipeline_count"
                        THEN <<Len(all_items)>> ELSE <<all_items>>
           /\ pc' \notin {"get_projects", "get_pipelines", "fetch_all_with_pagination"}
    ]_vars

\* a fetch that had taken one full page when a body without the item list came
C10_Witness ==
  /\ returned \in {"fetch_all_with_pagination", "get_projects"}
  /\ Len(log) = 2
  /\ ~log[2].resp.none
  /\ Malformed(key_name, log[2].resp)
  /\ Len(result[1]) = PageSize

(***************************************************************************)
(* Properties of get_pipeline_count.                                       *)
(***************************************************************************)
\* get_pipeline_count has returned and its record is still there
CountReturned == returned = "get_pipeline_count" /\ count_resp # <<>>

\* the size-1 response is an object under data without totalItems/totalElements
NoTotals(r) ==
  ~r.none /\ r.shape = "obj" /\ r.totalItems = <<>> /\ r.totalElements = <<>>

StoreCounts == [p \in 1..Len(srv_pages) |-> Len(srv_pages[p])]

\* every request of the full fetch was answered by a well-formed page that
\* declares 3 total pages
ConsistentThree ==
  \A i \in 1..Len(log) :
    ~Malformed("content", log[i].resp) /\ log[i].resp.totalPages = <<3>>

\* C3 as stated, granted a server that answers every request of the full fetch
\* with a well-formed page declaring 3 total pages: with totalPages = 3 and no
\* totalItems/totalElements in the size-1 response, get_pipeline_count returns
\* the sum of the item counts of all 3 pages the server holds.
C3_Original ==
  (/\ CountReturned
   /\ NoTotals(count_resp[1])
   /\ count_resp[1].totalPages = <<3>>
   /\ Len(srv_pages) = 3
   /\ ConsistentThree)
    => result = <<SumSeq(StoreCounts)>>

\* C3 (amended): with totalPages = 3, no totalItems/totalElements and a content
\* list in the size-1 response, get_pipeline_count falls back to get_pipelines
\* (page 0, size 100, is requested) and returns the number of items that fetch
\* accumulated; that number is the sum over all 3 pages the server holds when
\* every request of the full fetch is answered by a well-formed page declaring
\* 3 total pages and the first two pages hold at least 100 items each.
C3_Fallback ==
  (/\ CountReturned
   /\ NoTotals(count_resp[1])
   /\ count_resp[1].content # <<>>
   /\ count_resp[1].totalPages = <<3>>)
    => /\ log # <<>>
       /\ log[1].page = 0 /\ log[1].size = PageSize
       /\ result = <<SumSeq(LoggedCounts)>>
       /\ (/\ Len(srv_pages) = 3
           /\ ConsistentThree
           /\ StoreCounts[1] >= PageSize
           /\ StoreCounts[2] >= PageSize)
            => result = <<SumSeq(StoreCounts)>>

\* the fallback fetched two full pages and a last page of one pipeline
C3_Witness ==
  /\ CountReturned
  /\ NoTotals(count_resp[1])
  /\ count_resp[1].content # <<>>
  /\ count_resp[1].totalPages = <<3>>
  /\ ConsistentThree
  /\ StoreCounts = <<PageSize, PageSize, 1>>
  /\ result = <<2 * PageSize + 1>>

\* C4: without totalItems/totalElements, with a content list and a declared
\* totalPages of at most 1 (or none), get_pipeline_count returns the length of
\* that content list and issues no second request.
C4_SinglePageShortcut ==
  (/\ CountReturned
   /\ NoTotals(count_resp[1])
   /\ count_resp[1].content # <<>>
   /\ (count_resp[1].totalPages = <<>> \/ count_resp[1].totalPages[1] <= 1))
    => /\ result = <<Len(count_resp[1].content[1])>>
       /\ log = <<>>

\* totalPages = 1 and one item on page 0: the count is 1 after one request
C4_Witness ==
  /\ CountReturned
  /\ NoTotals(count_resp[1])
  /\ count_resp[1].content = <<Items(0, 1)>>
  /\ count_resp[1].totalPages = <<1>>
  /\ result = <<1>>
  /\ log = <<>>

\* C5: a totalItems field under data (or, without it, a totalElements field)
\* is returned as it is after the one size-1 request, whatever the content
\* list and totalPages of the response are.
C5_TotalsShortcut ==
  (CountReturned /\ ~count_resp[1].none /\ count_resp[1].shape = "obj")
    => /\ count_resp[1].totalItems # <<>>
            => result = count_resp[1].totalItems /\ log = <<>>
       /\ (count_resp[1].totalItems = <<>> /\ count_resp[1].totalElements # <<>>)
            => result = count_resp[1].totalElements /\ log = <<>>

\* totalItems = 42 wins over totalElements, a content list of 2 and totalPages 3
C5_Witness ==
  /\ CountReturned
  /\ count_resp[1].totalItems = <<42>>
  /\ count_resp[1].totalElements = <<7>>
  /\ count_resp[1].content = <<Items(0, 2)>>
  /\ count_resp[1].totalPages = <<3>>
  /\ result = <<42>>
  /\ log = <<>>

(***************************************************************************)
(* Properties of the traversal in main.                                    *)
(***************************************************************************)
\* the entry has no identifier key, or an empty identifier
NoId(e) == e.identifier = <<>> \/ e.identifier = <<"">>

HasId(e) == ~NoId(e)

\* the display name of an entry that has an identifier
NameOf(e) == IF e.name # <<>> THEN e.name[1] ELSE e.identifier[1]

counters == <<processed_org_count, processed_project_count, processed_pipeline_count>>

\* C6: an organization or project entry without identifier is stepped over:
\* no row is added, the three counters keep their values, no request is made
\* and no fetch is entered for it.
C6_SkipMissingIdentifier ==
  [][ /\ (pc = "org_loop" /\ org_idx <= Len(organizations)
            /\ NoId(organizations[org_idx]))
        => /\ all_pipeline_data' = all_pipeline_data
           /\ counters' = counters
           /\ log' = <<>> /\ count_resp' = <<>>
           /\ pc' = "org_loop" /\ org_idx' = org_idx + 1
           /\ fetched' = fetched
      /\ (pc = "proj_loop" /\ proj_idx <= Len(projects)
            /\ NoId(projects[proj_idx]))
        => /\ all_pipeline_data' = all_pipeline_data
           /\ counters' = counters
           /\ log' = <<>> /\ count_resp' = <<>>
           /\ pc' = "proj_loop" /\ proj_idx' = proj_idx + 1
           /\ fetched' = fetched
    ]_vars

\* the second of three organizations and the second and third of four
\* projects had no identifier and were stepped over
C6_Witness ==
  /\ pc = "proj_loop"
  /\ Len(organizations) = 3 /\ org_idx = 3 /\ NoId(organizations[2])
  /\ Len(projects) = 4 /\ proj_idx = 4
  /\ NoId(projects[2]) /\ NoId(projects[3])
  /\ processed_org_count = 2
  /\ Len(all_pipeline_data) = processed_project_count
  /\ processed_project_count >= 1

\* the (organization, project) names of the rows, in order
RowKeys ==
  [i \in 1..Len(all_pipeline_data) |->
     <<all_pipeline_data[i].Organization, all_pipeline_data[i].Project>>]

\* the rows one organization's project list calls for
KeysOf(f) ==
  LET ps == SelectSeq(f.projects, HasId)
  IN  [i \in 1..Len(ps) |-> <<f.org, NameOf(ps[i])>>]

ExpectedKeys == Concat([i \in 1..Len(fetched) |-> KeysOf(fetched[i])])

IdOrgNames ==
  LET os == SelectSeq(organizations, HasId)
  IN  [i \in 1..Len(os) |-> NameOf(os[i])]

\* C7: when main has run through, the rows are exactly one per project with an
\* identifier of the project lists fetched for the organizations with an
\* identifier, in the order the organizations and their projects were
\* returned; the row of a project carries the count get_pipeline_count
\* returned for it, 0 included.
C7_OneRowPerProject ==
  /\ (entry = "main" /\ pc = "done" /\ summary_printed)
       => /\ RowKeys = ExpectedKeys
          /\ [i \in 1..Len(fetched) |-> fetched[i].org] = IdOrgNames
  /\ (entry = "main" /\ returned = "get_pipeline_count")
       => /\ all_pipeline_data # <<>>
          /\ all_pipeline_data[Len(all_pipeline_data)] =
               [Organization |-> NameOf(organizations[org_idx]),
                Project |-> NameOf(projects[proj_idx - 1]),
                PipelineCount |-> result[1]]

\* a finished run over two organizations with a row of count 0 among others
C7_Witness ==
  /\ entry = "main" /\ pc = "done" /\ summary_printed
  /\ Len(fetched) = 2
  /\ Len(all_pipeline_data) >= 3
  /\ \E i \in 1..Len(all_pipeline_data) : all_pipeline_data[i].PipelineCount = 0
  /\ \E i \in 1..Len(all_pipeline_data) : all_pipeline_data[i].PipelineCount > 0

\* a request of the current step failed: make_api_request returned None
ProjectsRequestFailed ==
  pc = "get_projects" /\ Len(log') = Len(log) + 1 /\ log'[Len(log')].resp.none

PipelinesRequestFailed ==
  pc = "get_pipelines" /\ Len(log') = Len(log) + 1 /\ log'[Len(log')].resp.none

CountRequestFailed ==
  pc = "get_pipeline_count" /\ count_resp' = <<NoneResp>>

IdProjectCounts ==
  [i \in 1..Len(fetched) |-> Len(SelectSeq(fetched[i].projects, HasId))]

\* C9: a failed request while an organization's projects or a project's
\* pipeline count are fetched does not end the traversal.  The step in which
\* it fails hands main what was accumulated before (the projects so far; a
\* count of 0, or of the pipelines so far) and control stays in the loops; and
\* a run that has gone through has processed every organization with an
\* identifier and every project with an identifier of the lists fetched.
C9_FailureDoesNotAbort ==
  /\ [][ entry = "main" =>
           /\ ProjectsRequestFailed
                => /\ projects' = all_items
                   /\ all_pipeline_data' = all_pipeline_data
                   /\ pc' \in {"org_loop", "proj_loop"}
                   /\ exit_status' = <<>>
           /\ PipelinesRequestFailed
                => /\ all_pipeline_data' =
                        Append(all_pipeline_data,
                               [Organization |-> NameOf(organizations[org_idx]),
                                Project |-> NameOf(projects[proj_idx]),
                                PipelineCount |-> Len(all_items)])
                   /\ pc' = "proj_loop" /\ proj_idx' = proj_idx + 1
                   /\ exit_status' = <<>>
           /\ CountRequestFailed
                => /\ all_pipeline_data' =
                        Append(all_pipeline_data,
                               [Organization |-> NameOf(organizations[org_idx]),
                                Project |-> NameOf(projects[proj_idx]),
                                PipelineCount |-> 0])
                   /\ pc' = "proj_loop" /\ proj_idx' = proj_idx + 1
                   /\ exit_status' = <<>>
       ]_vars
  /\ [](  (entry = "main" /\ pc = "done" /\ summary_printed)
            => /\ processed_org_count = Len(SelectSeq(organizations, HasId))
               /\ Len(fetched) = processed_org_count
               /\ processed_project_count = SumSeq(IdProjectCounts)
               /\ Len(all_pipeline_data) = processed_project_count )

\* the full fetch for the first of four projects failed on its second page:
\* the row carries the 100 pipelines of the first page and the loop goes on
C9_Witness ==
  /\ entry = "main"
  /\ returned = "get_pipeline_count"
  /\ Len(log) = 2 /\ log[2].resp.none
  /\ result = <<PageSize>>
  /\ all_pipeline_data[Len(all_pipeline_data)].PipelineCount = PageSize
  /\ pc = "proj_loop" /\ proj_idx = 2 /\ Len(projects) = 4
  /\ org_idx < Len(organizations)

C11_NonNegativeCounts ==
  \A i \in 1..Len(all_pipeline_data) : all_pipeline_data[i].PipelineCount >= 0

(***************************************************************************)
(* Termination of the paginated fetches.                                   *)
(***************************************************************************)
\* the totalPages values the well-formed responses of the current fetch declared
DeclaredSeen ==
  {DeclaredTotal(key_name, log[i].resp)[1] :
     i \in {j \in 1..Len(log) : /\ ~Malformed(key_name, log[j].resp)
                                /\ DeclaredTotal(key_name, log[j].resp) # <<>>}}

MaxOf(S) == IF S = {} THEN 0 ELSE CHOOSE x \in S : \A y \in S : y <= x

\* max(1, N) for N the largest totalPages declared so far
RequestBound == IF MaxOf(DeclaredSeen) > 1 THEN MaxOf(DeclaredSeen) ELSE 1

\* the step issues the request for one page
PageStep == Len(log') = Len(log) + 1

FetchPcs == {"get_projects", "get_pipelines", "fetch_all_with_pagination"}

\* the response just received is a well-formed full page that declares a
\* total beyond the next page index
FullPageGrowingTotal ==
  LET r == log'[Len(log')].resp
  IN  /\ ~Malformed(key_name, r)
      /\ Len(ItemsOf(key_name, r)) >= PageSize
      /\ DeclaredTotal(key_name, r) # <<>>
      /\ DeclaredTotal(key_name, r)[1] > page_index + 1

\* C12: a paginated fetch issues at most max(1, N) requests, N the largest
\* totalPages the server declared to it.  Every page step either returns or
\* moves page_index up by one while keeping it below total_pages, which never
\* exceeds the largest declared total: with declared totals bounded the fetch
\* ends.  The loop has no limit of its own: after a well-formed full page whose
\* declared total lies beyond the next index, another request always follows.
C12_TerminationBound ==
  /\ [](Len(log) <= RequestBound)
  /\ [](pc \in FetchPcs => page_index = Len(log) /\ page_index < total_pages)
  /\ [][ PageStep =>
           \/ /\ returned' # ""
              /\ pc' \notin FetchPcs
           \/ /\ returned' = ""
              /\ pc' = pc
              /\ page_index' = page_index + 1
              /\ page_index' < total_pages'
              /\ total_pages' <= RequestBound'
       ]_vars
  /\ [][ (PageStep /\ FullPageGrowingTotal) => (returned' = "" /\ pc' = pc) ]_vars

\* the server raised the declared total by one with every full page and the
\* fetch followed it up to the largest total the server declares
C12_Witness ==
  /\ Len(log) = MaxTotalPages
  /\ \A i \in 1..(Len(log) - 1) :
       /\ ~Malformed(key_name, log[i].resp)
       /\ Len(ItemsOf(key_name, log[i].resp)) >= PageSize
       /\ DeclaredTotal(key_name, log[i].resp) = <<i + 1>>
  /\ Len(log) = RequestBound
  /\ returned # ""

====
